---- MODULE Spec2Model ----
(***************************************************************************)
(* FeatherDB: a typed table accessor over an embedded SQL engine.          *)
(*                                                                         *)
(* The model follows the most capable revision of the accessor             *)
(* (src/index.ts, lines 164-306): the query builder buildOpts, the six     *)
(* Table operations, and the two engine handles the accessor dispatches    *)
(* to (bun:sqlite, the native-style handle, and sql.js, the WASM-style     *)
(* handle).  SQL text is modelled as the sequence of its tokens, so that   *)
(* the engine has to parse what the accessor built.                        *)
(***************************************************************************)
EXTENDS Integers, Sequences, FiniteSets, TLC

(***************************************************************************)
(* JavaScript values.  Every value carries its kind in k, so that          *)
(* Array.isArray, truthiness and typeof can be decided as the code does.   *)
(* An object keeps its own properties in insertion order (Object.keys,     *)
(* Object.entries iterate in that order).                                  *)
(***************************************************************************)
Undefined == [k |-> "undefined", v |-> 0]
Null == [k |-> "null", v |-> 0]
Num(n) == [k |-> "number", v |-> n]
Str(s) == [k |-> "string", v |-> s]
Arr(xs) == [k |-> "array", v |-> xs]
Obj(props) == [k |-> "object", v |-> props]
Prop(key, value) == [key |-> key, value |-> value]

IsArray(x) == x.k = "array"

Truthy(x) ==
  CASE x.k = "undefined" -> FALSE
    [] x.k = "null" -> FALSE
    [] x.k = "number" -> x.v # 0
    [] x.k = "string" -> x.v # ""
    [] OTHER -> TRUE

\* Object.keys(o), Object.entries(o) of an object; the indices of an array.
Keys(o) == [i \in 1..Len(o.v) |-> o.v[i].key]

\* `${n}` of a number
NumText(n) ==
  CASE n = 0 -> "0" [] n = 1 -> "1" [] n = 2 -> "2" [] n = 3 -> "3"
    [] n = 4 -> "4" [] n = 5 -> "5" [] n = -1 -> "-1" [] n = -2 -> "-2"

\* Array.prototype.join(sep) on an array of token lists
RECURSIVE Join(_, _)
Join(parts, sep) ==
  IF parts = <<>> THEN <<>>
  ELSE IF Len(parts) = 1 THEN parts[1]
  ELSE parts[1] \o sep \o Join(Tail(parts), sep)

(***************************************************************************)
(* The schema (TableSchema.definition): the columns in declaration order.  *)
(***************************************************************************)
TableName == "user"

Column(name, type, nullable, primaryKey, autoIncrement) ==
  [name |-> name, type |-> type, nullable |-> nullable,
   primaryKey |-> primaryKey, autoIncrement |-> autoIncrement]

\* {id: INTEGER primaryKey autoIncrement, name: TEXT}
AutoSchema ==
  << Column("id", "INTEGER", FALSE, TRUE, TRUE),
     Column("name", "TEXT", FALSE, FALSE, FALSE) >>

\* {id: INTEGER primaryKey, name: TEXT}: the README's definition, no autoIncrement
PlainSchema ==
  << Column("id", "INTEGER", FALSE, TRUE, FALSE),
     Column("name", "TEXT", FALSE, FALSE, FALSE) >>

Schemas == {AutoSchema, PlainSchema}

\* key in this.schema.definition
InDefinition(definition, key) == \E i \in 1..Len(definition) : definition[i].name = key

(***************************************************************************)
(* Where objects and options.                                              *)
(***************************************************************************)
WhereObject(type, value) == [k |-> "object", type |-> type, value |-> value]
eq(value) == WhereObject("=", value)
gt(value) == WhereObject(">", value)
lt(value) == WhereObject("<", value)
ge(value) == WhereObject(">=", value)
le(value) == WhereObject("<=", value)
ne(value) == WhereObject("!=", value)

Where(column, opt) == [column |-> column, opt |-> opt]

GetOptions(where, orderBy, limit) ==
  [k |-> "object", where |-> where, orderBy |-> orderBy, limit |-> limit]

\* opts?.where, opts?.orderBy, opts?.limit
OptWhere(opts) == IF opts.k = "undefined" THEN Undefined ELSE opts.where
OptOrderBy(opts) == IF opts.k = "undefined" THEN Undefined ELSE opts.orderBy
OptLimit(opts) == IF opts.k = "undefined" THEN Undefined ELSE opts.limit

(***************************************************************************)
(* buildOpts.  The callback of opts.where.map for the element at the       *)
(* zero-based index i: the text it returns (no text when it returns        *)
(* undefined, which join('') renders as '') and the values it pushes.      *)
(***************************************************************************)
\* the sequence branch pushing the sequence itself, once, instead of its items
whereEntryPushesArray(where, i) ==
  LET option == where.v[i + 1] IN
  IF ~Truthy(option.opt) THEN [text |-> <<>>, pushed |-> <<>>]
  ELSE
    LET w == option.opt.value IN
    IF IsArray(w)
    THEN [text |-> <<"(">>
                   \o Join([j \in 1..Len(w.v) |->
                              <<option.column, option.opt.type, "?">>], <<"OR">>)
                   \o <<")">>,
          pushed |-> <<w>>]
    ELSE [text |-> <<option.column, option.opt.type, "?">>
                   \o (IF i < Len(where.v) - 1 THEN <<"AND">> ELSE <<>>),
          pushed |-> <<w>>]

\* the sequence branch joining its members with AND instead of OR
whereEntryJoinsAnd(where, i) ==
  LET option == where.v[i + 1] IN
  IF ~Truthy(option.opt) THEN [text |-> <<>>, pushed |-> <<>>]
  ELSE
    LET w == option.opt.value IN
    IF IsArray(w)
    THEN [text |-> <<"(">>
                   \o Join([j \in 1..Len(w.v) |->
                              <<option.column, option.opt.type, "?">>], <<"AND">>)
                   \o <<")">>,
          pushed |-> w.v]
    ELSE [text |-> <<option.column, option.opt.type, "?">>
                   \o (IF i < Len(where.v) - 1 THEN <<"AND">> ELSE <<>>),
          pushed |-> <<w>>]

whereEntry(where, i) ==
  LET option == where.v[i + 1] IN
  IF ~Truthy(option.opt) THEN [text |-> <<>>, pushed |-> <<>>]
  ELSE
    LET w == option.opt.value IN
    IF IsArray(w)
    THEN [text |-> <<"(">>
                   \o Join([j \in 1..Len(w.v) |->
                              <<option.column, option.opt.type, "?">>], <<"OR">>)
                   \o <<")">>,
          pushed |-> w.v]
    ELSE [text |-> <<option.column, option.opt.type, "?">>
                   \o (IF i < Len(where.v) - 1 THEN <<"AND">> ELSE <<>>),
          pushed |-> <<w>>]

whereClause(opts) ==
  LET where == OptWhere(opts) IN
  IF ~Truthy(where) THEN [text |-> <<>>, pushed |-> <<>>]
  ELSE
    LET entries == [i \in 1..Len(where.v) |-> whereEntry(where, i - 1)] IN
    [text |-> <<"WHERE">> \o Join([i \in 1..Len(where.v) |-> entries[i].text], <<>>),
     pushed |-> Join([i \in 1..Len(where.v) |-> entries[i].pushed], <<>>)]

\* ORDER BY listing the columns from the last entry to the first
orderByClauseReversed(opts) ==
  LET orderBy == OptOrderBy(opts) IN
  IF ~Truthy(orderBy) THEN <<>>
  ELSE <<"ORDER", "BY">>
       \o Join([i \in 1..Len(orderBy.v) |->
                  <<orderBy.v[Len(orderBy.v) + 1 - i].key>>
                  \o (IF Truthy(orderBy.v[Len(orderBy.v) + 1 - i].value)
                      THEN <<orderBy.v[Len(orderBy.v) + 1 - i].value.v>> ELSE <<>>)], <<",">>)

orderByClause(opts) ==
  LET orderBy == OptOrderBy(opts) IN
  IF ~Truthy(orderBy) THEN <<>>
  ELSE <<"ORDER", "BY">>
       \o Join([i \in 1..Len(orderBy.v) |->
                  <<orderBy.v[i].key>>
                  \o (IF Truthy(orderBy.v[i].value)
                      THEN <<orderBy.v[i].value.v>> ELSE <<>>)], <<",">>)

limitClause(opts) ==
  LET limit == OptLimit(opts) IN
  IF ~Truthy(limit) THEN <<>> ELSE <<"LIMIT", NumText(limit.v)>>

buildOpts(opts) ==
  LET w == whereClause(opts) IN
  [builtQuery |-> w.text \o orderByClause(opts) \o limitClause(opts),
   values |-> w.pushed]

(***************************************************************************)
(* The statements the Table operations build: the SQL text and the ordered *)
(* parameter list handed to the engine.                                    *)
(***************************************************************************)
Statement(query, params) == [k |-> "statement", query |-> query, params |-> params]
Throw(message) == [k |-> "throw", message |-> message]

\* columnDef that writes AUTOINCREMENT for an auto-increment key of any type
columnDefAnyType(col) ==
  <<col.name, col.type>>
  \o (IF col.primaryKey
      THEN <<"PRIMARY", "KEY">>
           \o (IF col.autoIncrement THEN <<"AUTOINCREMENT">> ELSE <<>>)
      ELSE <<>>)
  \o (IF ~col.nullable /\ ~col.primaryKey THEN <<"NOT", "NULL">> ELSE <<>>)

columnDef(col) ==
  <<col.name, col.type>>
  \o (IF col.primaryKey
      THEN <<"PRIMARY", "KEY">>
           \o (IF col.autoIncrement /\ col.type = "INTEGER"
               THEN <<"AUTOINCREMENT">> ELSE <<>>)
      ELSE <<>>)
  \o (IF ~col.nullable /\ ~col.primaryKey THEN <<"NOT", "NULL">> ELSE <<>>)

createStatement(definition) ==
  Statement(<<"CREATE", "TABLE", "IF", "NOT", "EXISTS", TableName, "(">>
            \o Join([i \in 1..Len(definition) |-> columnDef(definition[i])], <<",">>)
            \o <<")">>,
            <<>>)

\* INSERT listing the columns from the last key to the first, values as given
addStatementReversedColumns(row) ==
  LET columns == Keys(row) IN
  Statement(<<"INSERT", "INTO", TableName, "(">>
            \o Join([i \in 1..Len(columns) |-> <<columns[Len(columns) + 1 - i]>>], <<",">>)
            \o <<")", "VALUES", "(">>
            \o Join([i \in 1..Len(columns) |-> <<"?">>], <<",">>)
            \o <<")">>,
            [i \in 1..Len(columns) |-> row.v[i].value])

\* add: the INSERT built from the row's own keys
addStatement(row) ==
  LET columns == Keys(row) IN
  Statement(<<"INSERT", "INTO", TableName, "(">>
            \o Join([i \in 1..Len(columns) |-> <<columns[i]>>], <<",">>)
            \o <<")", "VALUES", "(">>
            \o Join([i \in 1..Len(columns) |-> <<"?">>], <<",">>)
            \o <<")">>,
            [i \in 1..Len(columns) |-> row.v[i].value])

\* add: the column the native-style re-fetch filters by (undefined when the
\* definition has no auto-increment INTEGER primary key)
primaryKeyCol(definition) ==
  LET found == SelectSeq(definition, LAMBDA def :
                 def.primaryKey /\ def.autoIncrement /\ def.type = "INTEGER") IN
  IF found = <<>> THEN "undefined" ELSE found[1].name

getStatement(opts) ==
  LET b == buildOpts(opts) IN
  Statement(<<"SELECT", "*", "FROM", TableName>> \o b.builtQuery, b.values)

\* delete that leaves the conditions out of the text
deleteStatementEveryRow(opts) == Statement(<<"DELETE", "FROM", TableName>>, <<>>)

\* delete that keeps the rows after the first
deleteStatementFirstRow(opts) ==
  LET b == buildOpts(opts) IN
  Statement(<<"DELETE", "FROM", TableName, "WHERE", "id", "=", "?">>, <<Num(1)>>)

deleteStatement(opts) ==
  LET b == buildOpts(opts) IN
  Statement(<<"DELETE", "FROM", TableName>> \o b.builtQuery, b.values)

\* count that leaves the conditions out of the text
countStatementUnfiltered(where) ==
  Statement(<<"SELECT", "COUNT", "(", "*", ")", "as", "count", "FROM", TableName>>, <<>>)

countStatement(where) ==
  LET b == buildOpts(GetOptions(where, Undefined, Undefined)) IN
  Statement(<<"SELECT", "COUNT", "(", "*", ")", "as", "count", "FROM", TableName>>
            \o b.builtQuery, b.values)

\* update binding the WHERE values before the SET values
\* update that assigns every key of partialRow, declared or not
\* update that leaves the conditions out of the text
updateStatementEveryRow(definition, partialRow, opts) ==
  IF ~Truthy(partialRow) \/ Len(Keys(partialRow)) = 0
  THEN Throw("Update requires at least one field to update")
  ELSE
    LET declared == SelectSeq(partialRow.v, LAMBDA e : InDefinition(definition, e.key))
        updateFields == Join([i \in 1..Len(declared) |->
                                <<declared[i].key, "=", "?">>], <<",">>)
        updateValues == [i \in 1..Len(declared) |-> declared[i].value]
    IN Statement(<<"UPDATE", TableName, "SET">> \o updateFields, updateValues)

updateStatementUnfiltered(definition, partialRow, opts) ==
  IF ~Truthy(partialRow) \/ Len(Keys(partialRow)) = 0
  THEN Throw("Update requires at least one field to update")
  ELSE
    LET updateFields == Join([i \in 1..Len(partialRow.v) |->
                                <<partialRow.v[i].key, "=", "?">>], <<",">>)
        b == buildOpts(opts)
        updateValues == [i \in 1..Len(partialRow.v) |-> partialRow.v[i].value]
    IN Statement(<<"UPDATE", TableName, "SET">> \o updateFields \o b.builtQuery,
                 updateValues \o b.values)

updateStatementUnguarded(definition, partialRow, opts) ==
  LET declared == SelectSeq(partialRow.v, LAMBDA e : InDefinition(definition, e.key))
      updateFields == Join([i \in 1..Len(declared) |->
                              <<declared[i].key, "=", "?">>], <<",">>)
      b == buildOpts(opts)
      updateValues == [i \in 1..Len(declared) |-> declared[i].value]
  IN Statement(<<"UPDATE", TableName, "SET">> \o updateFields \o b.builtQuery,
               updateValues \o b.values)

updateStatementWhereFirst(definition, partialRow, opts) ==
  IF ~Truthy(partialRow) \/ Len(Keys(partialRow)) = 0
  THEN Throw("Update requires at least one field to update")
  ELSE
    LET declared == SelectSeq(partialRow.v, LAMBDA e : InDefinition(definition, e.key))
        updateFields == Join([i \in 1..Len(declared) |->
                                <<declared[i].key, "=", "?">>], <<",">>)
        b == buildOpts(opts)
        updateValues == [i \in 1..Len(declared) |-> declared[i].value]
    IN Statement(<<"UPDATE", TableName, "SET">> \o updateFields \o b.builtQuery,
                 b.values \o updateValues)

\* update: the guard on partialRow, then SET values first, WHERE values after
updateStatement(definition, partialRow, opts) ==
  IF ~Truthy(partialRow) \/ Len(Keys(partialRow)) = 0
  THEN Throw("Update requires at least one field to update")
  ELSE
    LET declared == SelectSeq(partialRow.v, LAMBDA e : InDefinition(definition, e.key))
        updateFields == Join([i \in 1..Len(declared) |->
                                <<declared[i].key, "=", "?">>], <<",">>)
        b == buildOpts(opts)
        updateValues == [i \in 1..Len(declared) |-> declared[i].value]
    IN Statement(<<"UPDATE", TableName, "SET">> \o updateFields \o b.builtQuery,
                 updateValues \o b.values)

(***************************************************************************)
(* State.                                                                  *)
(***************************************************************************)
VARIABLES
  schema,     \* Table.schema.definition, fixed at construction
  backend,    \* the handle: "sqljs" has create_function, "bun" has not
  table,      \* engine: the columns of the created table, <<>> while absent
  rows,       \* engine: the stored rows, in rowid order
  sequence,   \* engine: the largest rowid ever assigned (sqlite_sequence)
  call,       \* the last Table operation: arguments, statements issued, outcome
  opts,       \* builder harness: the options under construction
  built,      \* builder harness: the last text and parameters built from opts
  reply       \* reply harness: the rows the handle yields for the statement sent

vars == <<schema, backend, table, rows, sequence, call, opts, built, reply>>
engineVars == <<table, rows, sequence>>

\* after: the add call a get follows when it looks up the row just added
Call(op, args, issued, outcome) ==
  [op |-> op, args |-> args, issued |-> issued, outcome |-> outcome, after |-> <<>>]

NoCall == Call("new", <<>>, <<>>, Undefined)

(***************************************************************************)
(* The engine behind the handle (SQLite, through bun:sqlite or sql.js).    *)
(* It parses the text it is given: a statement that is not well formed, or *)
(* that names a table or column that does not exist, raises an error and   *)
(* changes nothing.                                                        *)
(***************************************************************************)
CompareOps == {"=", "!=", ">", "<", ">=", "<="}

Keywords ==
  CompareOps \cup {"WHERE", "AND", "OR", "ORDER", "BY", "LIMIT", "ASC", "DESC", "SET",
                   "VALUES", "FROM", "(", ")", ",", "?", "*"}

IsName(token) == token \notin Keywords

At(text, p, token) == p <= Len(text) /\ text[p] = token

Failed == [ok |-> FALSE]

\* name op ?
ParseComparison(text, p) ==
  IF p + 2 <= Len(text) /\ IsName(text[p]) /\ text[p + 1] \in CompareOps /\ text[p + 2] = "?"
  THEN [ok |-> TRUE, next |-> p + 3, term |-> <<[column |-> text[p], type |-> text[p + 1]]>>]
  ELSE Failed

\* comparison { OR comparison }
RECURSIVE ParseOrChain(_, _)
ParseOrChain(text, p) ==
  LET c == ParseComparison(text, p) IN
  IF ~c.ok THEN Failed
  ELSE IF At(text, c.next, "OR")
  THEN LET r == ParseOrChain(text, c.next + 1) IN
       IF ~r.ok THEN Failed
       ELSE [ok |-> TRUE, next |-> r.next, term |-> c.term \o r.term]
  ELSE c

\* comparison | ( comparison { OR comparison } )
ParseTerm(text, p) ==
  IF At(text, p, "(")
  THEN LET r == ParseOrChain(text, p + 1) IN
       IF r.ok /\ At(text, r.next, ")") THEN [r EXCEPT !.next = @ + 1] ELSE Failed
  ELSE ParseComparison(text, p)

\* term { AND term }
RECURSIVE ParseAndChain(_, _)
ParseAndChain(text, p) ==
  LET t == ParseTerm(text, p) IN
  IF ~t.ok THEN Failed
  ELSE IF At(text, t.next, "AND")
  THEN LET r == ParseAndChain(text, t.next + 1) IN
       IF ~r.ok THEN Failed
       ELSE [ok |-> TRUE, next |-> r.next, terms |-> <<t.term>> \o r.terms]
  ELSE [ok |-> TRUE, next |-> t.next, terms |-> <<t.term>>]

\* [ WHERE term { AND term } ]
ParseWhere(text, p) ==
  IF At(text, p, "WHERE") THEN ParseAndChain(text, p + 1)
  ELSE [ok |-> TRUE, next |-> p, terms |-> <<>>]

\* name [ ASC | DESC ] { , name [ ASC | DESC ] }
RECURSIVE ParseOrdering(_, _)
ParseOrdering(text, p) ==
  IF ~(p <= Len(text) /\ IsName(text[p])) THEN Failed
  ELSE
    LET desc == At(text, p + 1, "DESC")
        q == IF desc \/ At(text, p + 1, "ASC") THEN p + 2 ELSE p + 1
        one == <<[column |-> text[p], desc |-> desc]>>
    IN IF At(text, q, ",")
       THEN LET r == ParseOrdering(text, q + 1) IN
            IF ~r.ok THEN Failed
            ELSE [ok |-> TRUE, next |-> r.next, order |-> one \o r.order]
       ELSE [ok |-> TRUE, next |-> q, order |-> one]

\* [ ORDER BY ordering ]
ParseOrderBy(text, p) ==
  IF At(text, p, "ORDER")
  THEN IF At(text, p + 1, "BY") THEN ParseOrdering(text, p + 2) ELSE Failed
  ELSE [ok |-> TRUE, next |-> p, order |-> <<>>]

NumberTokens == {NumText(n) : n \in -2..5}
TokenNumber(token) == CHOOSE n \in -2..5 : NumText(n) = token

\* [ LIMIT n ]
ParseLimit(text, p) ==
  IF At(text, p, "LIMIT")
  THEN IF p + 1 <= Len(text) /\ text[p + 1] \in NumberTokens
       THEN [ok |-> TRUE, next |-> p + 2, limit |-> Num(TokenNumber(text[p + 1]))]
       ELSE Failed
  ELSE [ok |-> TRUE, next |-> p, limit |-> Undefined]

\* the clauses after the table name, to the end of the text
ClausesEnd(text, w, o, l) ==
  IF ~l.ok \/ l.next # Len(text) + 1 THEN Failed
  ELSE [ok |-> TRUE, terms |-> w.terms, order |-> o.order, limit |-> l.limit]

ClausesAfterOrderBy(text, w, o) ==
  IF ~o.ok THEN Failed ELSE ClausesEnd(text, w, o, ParseLimit(text, o.next))

ClausesAfterWhere(text, w) ==
  IF ~w.ok THEN Failed ELSE ClausesAfterOrderBy(text, w, ParseOrderBy(text, w.next))

ParseClauses(text, p) == ClausesAfterWhere(text, ParseWhere(text, p))

\* name { , name }
RECURSIVE ParseNames(_, _)
ParseNames(text, p) ==
  IF ~(p <= Len(text) /\ IsName(text[p])) THEN Failed
  ELSE IF At(text, p + 1, ",")
  THEN LET r == ParseNames(text, p + 2) IN
       IF ~r.ok THEN Failed
       ELSE [ok |-> TRUE, next |-> r.next, names |-> <<text[p]>> \o r.names]
  ELSE [ok |-> TRUE, next |-> p + 1, names |-> <<text[p]>>]

\* ? { , ? }
RECURSIVE ParseMarks(_, _)
ParseMarks(text, p) ==
  IF ~At(text, p, "?") THEN Failed
  ELSE IF At(text, p + 1, ",")
  THEN LET r == ParseMarks(text, p + 2) IN
       IF ~r.ok THEN Failed ELSE [ok |-> TRUE, next |-> r.next, count |-> 1 + r.count]
  ELSE [ok |-> TRUE, next |-> p + 1, count |-> 1]

\* name = ? { , name = ? }
RECURSIVE ParseAssignments(_, _)
ParseAssignments(text, p) ==
  IF ~(p + 2 <= Len(text) /\ IsName(text[p]) /\ text[p + 1] = "=" /\ text[p + 2] = "?")
  THEN Failed
  ELSE IF At(text, p + 3, ",")
  THEN LET r == ParseAssignments(text, p + 4) IN
       IF ~r.ok THEN Failed
       ELSE [ok |-> TRUE, next |-> r.next, names |-> <<text[p]>> \o r.names]
  ELSE [ok |-> TRUE, next |-> p + 3, names |-> <<text[p]>>]

\* name type [ PRIMARY KEY [ AUTOINCREMENT ] ] [ NOT NULL ] { , ... }
RECURSIVE ParseColumnDefs(_, _)
ParseColumnDefs(text, p) ==
  IF ~(p + 1 <= Len(text) /\ IsName(text[p])
       /\ text[p + 1] \in {"INTEGER", "REAL", "TEXT", "BOOLEAN"})
  THEN Failed
  ELSE
    LET pk == At(text, p + 2, "PRIMARY") /\ At(text, p + 3, "KEY")
        p1 == IF pk THEN p + 4 ELSE p + 2
        ai == pk /\ At(text, p1, "AUTOINCREMENT")
        p2 == IF ai THEN p1 + 1 ELSE p1
        nn == At(text, p2, "NOT") /\ At(text, p2 + 1, "NULL")
        p3 == IF nn THEN p2 + 2 ELSE p2
        one == <<[name |-> text[p], type |-> text[p + 1], primaryKey |-> pk,
                  autoIncrement |-> ai, notNull |-> nn]>>
    IN IF At(text, p3, ",")
       THEN LET r == ParseColumnDefs(text, p3 + 1) IN
            IF ~r.ok THEN Failed
            ELSE [ok |-> TRUE, next |-> r.next, columns |-> one \o r.columns]
       ELSE [ok |-> TRUE, next |-> p3, columns |-> one]

(***************************************************************************)
(* Stored values and their comparison: NULL compares to nothing, numbers   *)
(* sort before text, text sorts bytewise.                                  *)
(***************************************************************************)
TextOrder == <<"-1", "-2", "0", "1", "2", "3", "4", "5", "a", "b", "c", "d">>
TextRank(t) == CHOOSE i \in 1..Len(TextOrder) : TextOrder[i] = t

\* a bound number compared with a TEXT column is compared as text
ApplyAffinity(type, value) ==
  IF type = "TEXT" /\ value.k = "number" THEN Str(NumText(value.v)) ELSE value

\* -1, 0, 1 for two values that are not NULL
SqlOrder(a, b) ==
  IF a.k # b.k THEN (IF a.k = "number" THEN -1 ELSE 1)
  ELSE LET x == IF a.k = "number" THEN a.v ELSE TextRank(a.v)
           y == IF b.k = "number" THEN b.v ELSE TextRank(b.v)
       IN IF x < y THEN -1 ELSE IF x > y THEN 1 ELSE 0

SqlCompare(a, type, b) ==
  IF a.k = "null" \/ b.k = "null" THEN FALSE
  ELSE LET c == SqlOrder(a, b) IN
       CASE type = "=" -> c = 0
         [] type = "!=" -> c # 0
         [] type = ">" -> c > 0
         [] type = "<" -> c < 0
         [] type = ">=" -> c >= 0
         [] type = "<=" -> c <= 0

(***************************************************************************)
(* The engine's state is the created table (its columns), its rows in      *)
(* rowid order and the AUTOINCREMENT high-water mark.  Every schema of     *)
(* Schemas declares an INTEGER PRIMARY KEY, which SQLite makes the rowid.  *)
(***************************************************************************)
EngineState(t, r, q) == [table |-> t, rows |-> r, sequence |-> q]

Raise(e, message) == [error |-> message, engine |-> e, result |-> <<>>, lastInsertRowid |-> 0]
Ok(e, result, rowid) == [error |-> "", engine |-> e, result |-> result, lastInsertRowid |-> rowid]

ColumnNames(t) == {t[i].name : i \in 1..Len(t)}
ColumnOf(t, name) == t[CHOOSE i \in 1..Len(t) : t[i].name = name]
RowidColumn(t) ==
  t[CHOOSE i \in 1..Len(t) : t[i].primaryKey /\ t[i].type = "INTEGER"].name

Max(a, b) == IF a >= b THEN a ELSE b

\* the largest rowid in the table, 0 when it is empty
MaxRowid(e) ==
  IF e.rows = <<>> THEN 0 ELSE e.rows[Len(e.rows)][RowidColumn(e.table)].v

\* the columns a parsed clause list names
NamedColumns(clauses) ==
  UNION {{clauses.terms[i][j].column : j \in 1..Len(clauses.terms[i])} :
           i \in 1..Len(clauses.terms)}
  \cup {clauses.order[i].column : i \in 1..Len(clauses.order)}

\* the row satisfies every term; the placeholders are bound left to right,
\* the first of them to params[base + 1]
Matches(e, row, terms, params, base) ==
  \A i \in 1..Len(terms) :
    LET before == base + Len(Join([n \in 1..(i - 1) |-> terms[n]], <<>>)) IN
    \E j \in 1..Len(terms[i]) :
      LET c == terms[i][j] IN
      SqlCompare(row[c.column], c.type,
                 ApplyAffinity(ColumnOf(e.table, c.column).type, params[before + j]))

\* a sorts strictly before b under the ordering (NULL first when ascending)
RECURSIVE RowBefore(_, _, _)
RowBefore(order, a, b) ==
  IF order = <<>> THEN FALSE
  ELSE
    LET x == a[Head(order).column]
        y == b[Head(order).column]
        c == IF x.k = "null" \/ y.k = "null"
             THEN (IF x.k = y.k THEN 0 ELSE IF x.k = "null" THEN -1 ELSE 1)
             ELSE SqlOrder(x, y)
        d == IF Head(order).desc THEN 0 - c ELSE c
    IN IF d # 0 THEN d < 0 ELSE RowBefore(Tail(order), a, b)

\* a stable sort by insertion
RECURSIVE OrderRows(_, _)
OrderRows(order, rs) ==
  IF rs = <<>> THEN <<>>
  ELSE
    LET sorted == OrderRows(order, SubSeq(rs, 1, Len(rs) - 1))
        r == rs[Len(rs)]
        n == Cardinality({i \in 1..Len(sorted) : ~RowBefore(order, r, sorted[i])})
    IN SubSeq(sorted, 1, n) \o <<r>> \o SubSeq(sorted, n + 1, Len(sorted))

ByRowid(e, rs) == OrderRows(<<[column |-> RowidColumn(e.table), desc |-> FALSE]>>, rs)

Limited(limit, rs) ==
  IF limit.k = "undefined" \/ limit.v < 0 \/ limit.v >= Len(rs) THEN rs
  ELSE SubSeq(rs, 1, limit.v)

\* a stored row as the object the handle returns for it
RowObject(e, row) == Obj([i \in 1..Len(e.table) |-> Prop(e.table[i].name, row[e.table[i].name])])

CreateParsed(e, text, defs) ==
  IF ~defs.ok \/ ~At(text, defs.next, ")") \/ defs.next # Len(text)
  THEN Raise(e, "syntax error")
  ELSE IF e.table # <<>> THEN Ok(e, <<>>, 0)
  ELSE Ok([e EXCEPT !.table = defs.columns], <<>>, 0)

\* CREATE TABLE IF NOT EXISTS name ( column definitions )
ExecCreate(e, text, params) ==
  IF ~(Len(text) >= 8 /\ SubSeq(text, 1, 5) = <<"CREATE", "TABLE", "IF", "NOT", "EXISTS">>
       /\ IsName(text[6]) /\ text[7] = "(")
  THEN Raise(e, "syntax error")
  ELSE CreateParsed(e, text, ParseColumnDefs(text, 8))

\* the value an INSERT gives the column c: its parameter, NULL when not listed
Given(names, params, c) ==
  IF \E i \in 1..Len(names) : names[i] = c
  THEN params[CHOOSE i \in 1..Len(names) : names[i] = c]
  ELSE Null

\* the row is stored under rowid unless a constraint fails
InsertRow(e, names, params, rowid) ==
  IF \E i \in 1..Len(e.table) :
       /\ e.table[i].notNull
       /\ e.table[i].name # RowidColumn(e.table)
       /\ Given(names, params, e.table[i].name).k = "null"
  THEN Raise(e, "NOT NULL constraint failed")
  ELSE IF \E i \in 1..Len(e.rows) : e.rows[i][RowidColumn(e.table)].v = rowid
  THEN Raise(e, "UNIQUE constraint failed")
  ELSE Ok([e EXCEPT
             !.rows = ByRowid(e, e.rows \o
                <<[c \in ColumnNames(e.table) |->
                     IF c = RowidColumn(e.table) THEN Num(rowid)
                     ELSE ApplyAffinity(ColumnOf(e.table, c).type, Given(names, params, c))]>>),
             !.sequence = IF ColumnOf(e.table, RowidColumn(e.table)).autoIncrement
                          THEN Max(e.sequence, rowid) ELSE e.sequence],
          <<>>, rowid)

\* the rowid: the one given, else one more than the largest in the table, or
\* than the largest ever assigned for an AUTOINCREMENT key
InsertKeyed(e, names, params, key) ==
  IF key.k \notin {"null", "number"} THEN Raise(e, "datatype mismatch")
  ELSE InsertRow(e, names, params,
                 IF key.k = "number" THEN key.v
                 ELSE IF ColumnOf(e.table, RowidColumn(e.table)).autoIncrement
                 THEN Max(e.sequence, MaxRowid(e)) + 1
                 ELSE MaxRowid(e) + 1)

InsertParsed(e, text, params, names, marks) ==
  IF ~(marks.ok /\ At(text, marks.next, ")") /\ marks.next = Len(text))
  THEN Raise(e, "syntax error")
  ELSE IF e.table = <<>> \/ text[3] # TableName THEN Raise(e, "no such table")
  ELSE IF \E i \in 1..Len(names.names) : names.names[i] \notin ColumnNames(e.table)
  THEN Raise(e, "table has no such column")
  ELSE IF marks.count # Len(names.names) THEN Raise(e, "values do not match columns")
  ELSE InsertKeyed(e, names.names, params,
                   Given(names.names, params, RowidColumn(e.table)))

InsertNames(e, text, params, names) ==
  IF ~(names.ok /\ At(text, names.next, ")") /\ At(text, names.next + 1, "VALUES")
       /\ At(text, names.next + 2, "("))
  THEN Raise(e, "syntax error")
  ELSE InsertParsed(e, text, params, names, ParseMarks(text, names.next + 3))

\* INSERT INTO name ( columns ) VALUES ( placeholders )
ExecInsert(e, text, params) ==
  IF ~(Len(text) >= 4 /\ SubSeq(text, 1, 2) = <<"INSERT", "INTO">> /\ IsName(text[3])
       /\ text[4] = "(")
  THEN Raise(e, "syntax error")
  ELSE InsertNames(e, text, params, ParseNames(text, 5))

\* the rows a parsed SELECT gives: the count of the matching rows, or the
\* matching rows in the requested order, cut to the limit
SelectFound(e, counting, clauses, found) ==
  IF counting
  THEN Ok(e, Limited(clauses.limit, <<Obj(<<Prop("count", Num(Len(found)))>>)>>), 0)
  ELSE Ok(e, Limited(clauses.limit,
                     [i \in 1..Len(found) |->
                        RowObject(e, OrderRows(clauses.order, found)[i])]), 0)

SelectParsed(e, params, counting, name, clauses) ==
  IF ~clauses.ok THEN Raise(e, "syntax error")
  ELSE IF e.table = <<>> \/ name # TableName THEN Raise(e, "no such table")
  ELSE IF ~(NamedColumns(clauses) \subseteq ColumnNames(e.table)) THEN Raise(e, "no such column")
  ELSE SelectFound(e, counting, clauses,
                   SelectSeq(e.rows, LAMBDA row : Matches(e, row, clauses.terms, params, 0)))

SelectFrom(e, text, params, counting, at) ==
  IF ~(at <= Len(text) /\ IsName(text[at])) THEN Raise(e, "syntax error")
  ELSE SelectParsed(e, params, counting, text[at], ParseClauses(text, at + 1))

\* SELECT * FROM name clauses, SELECT COUNT ( * ) as count FROM name clauses
ExecSelect(e, text, params) ==
  IF Len(text) >= 8 /\ SubSeq(text, 1, 8) =
       <<"SELECT", "COUNT", "(", "*", ")", "as", "count", "FROM">>
  THEN SelectFrom(e, text, params, TRUE, 9)
  ELSE IF Len(text) >= 3 /\ SubSeq(text, 1, 3) = <<"SELECT", "*", "FROM">>
  THEN SelectFrom(e, text, params, FALSE, 4)
  ELSE Raise(e, "syntax error")

DeleteParsed(e, params, name, clauses) ==
  IF ~(clauses.ok /\ clauses.order = <<>> /\ clauses.limit.k = "undefined")
  THEN Raise(e, "syntax error")
  ELSE IF e.table = <<>> \/ name # TableName THEN Raise(e, "no such table")
  ELSE IF ~(NamedColumns(clauses) \subseteq ColumnNames(e.table)) THEN Raise(e, "no such column")
  ELSE Ok([e EXCEPT !.rows = SelectSeq(e.rows, LAMBDA row :
                                ~Matches(e, row, clauses.terms, params, 0))], <<>>, 0)

\* DELETE FROM name [ WHERE ... ]; ORDER BY and LIMIT are not part of DELETE in a
\* build without SQLITE_ENABLE_UPDATE_DELETE_LIMIT
ExecDelete(e, text, params) ==
  IF ~(Len(text) >= 3 /\ SubSeq(text, 1, 2) = <<"DELETE", "FROM">> /\ IsName(text[3]))
  THEN Raise(e, "syntax error")
  ELSE DeleteParsed(e, params, text[3], ParseClauses(text, 4))

\* the rows after the assignments: the rowid stays a number, NOT NULL and the
\* uniqueness of the primary key hold, or nothing changes
UpdateChecked(e, after) ==
  IF \E i \in 1..Len(after) : after[i][RowidColumn(e.table)].k # "number"
  THEN Raise(e, "datatype mismatch")
  ELSE IF \E i \in 1..Len(after) : \E c \in 1..Len(e.table) :
            e.table[c].notNull /\ after[i][e.table[c].name].k = "null"
  THEN Raise(e, "NOT NULL constraint failed")
  ELSE IF \E i, j \in 1..Len(after) :
            i # j /\ after[i][RowidColumn(e.table)] = after[j][RowidColumn(e.table)]
  THEN Raise(e, "UNIQUE constraint failed")
  ELSE Ok([e EXCEPT !.rows = ByRowid(e, after)], <<>>, 0)

\* the row with the assignments applied; the last assignment to a column wins
Assigned(e, row, names, params) ==
  [c \in ColumnNames(e.table) |->
     IF \E i \in 1..Len(names) : names[i] = c
     THEN ApplyAffinity(ColumnOf(e.table, c).type,
                        params[CHOOSE i \in 1..Len(names) :
                                 /\ names[i] = c
                                 /\ \A j \in (i + 1)..Len(names) : names[j] # c])
     ELSE row[c]]

UpdateParsed(e, params, name, names, clauses) ==
  IF ~(clauses.ok /\ clauses.order = <<>> /\ clauses.limit.k = "undefined")
  THEN Raise(e, "syntax error")
  ELSE IF e.table = <<>> \/ name # TableName THEN Raise(e, "no such table")
  ELSE IF ~(NamedColumns(clauses) \subseteq ColumnNames(e.table))
          \/ \E i \in 1..Len(names) : names[i] \notin ColumnNames(e.table)
  THEN Raise(e, "no such column")
  ELSE UpdateChecked(e, [i \in 1..Len(e.rows) |->
                           IF Matches(e, e.rows[i], clauses.terms, params, Len(names))
                           THEN Assigned(e, e.rows[i], names, params)
                           ELSE e.rows[i]])

UpdateSets(e, text, params, sets) ==
  IF ~sets.ok THEN Raise(e, "syntax error")
  ELSE UpdateParsed(e, params, text[2], sets.names, ParseClauses(text, sets.next))

\* UPDATE name SET assignments [ WHERE ... ]
ExecUpdate(e, text, params) ==
  IF ~(Len(text) >= 3 /\ text[1] = "UPDATE" /\ IsName(text[2]) /\ text[3] = "SET")
  THEN Raise(e, "syntax error")
  ELSE UpdateSets(e, text, params, ParseAssignments(text, 4))

Execute(e, text, params) ==
  CASE At(text, 1, "CREATE") -> ExecCreate(e, text, params)
    [] At(text, 1, "INSERT") -> ExecInsert(e, text, params)
    [] At(text, 1, "SELECT") -> ExecSelect(e, text, params)
    [] At(text, 1, "DELETE") -> ExecDelete(e, text, params)
    [] At(text, 1, "UPDATE") -> ExecUpdate(e, text, params)
    [] OTHER -> Raise(e, "syntax error")

(***************************************************************************)
(* The two handles.  Both hand the statement to the same engine; they      *)
(* differ in how a parameter is bound and in what a call gives back.       *)
(***************************************************************************)
Backends == {"bun", "sqljs"}

\* 'create_function' in this.db
HasCreateFunction(handle) == handle = "sqljs"

\* sql.js refuses to bind undefined; bun:sqlite binds it as NULL
Send(handle, e, statement) ==
  IF handle = "sqljs" /\ \E i \in 1..Len(statement.params) : statement.params[i].k = "undefined"
  THEN Raise(e, "Wrong API use : tried to bind a value of an unknown type")
  ELSE Execute(e, statement.query,
               [i \in 1..Len(statement.params) |->
                  IF statement.params[i].k = "undefined" THEN Null ELSE statement.params[i]])

\* sql.js Statement.getAsObject(params): binds, steps once and returns the
\* current row by column name; a statement without result columns gives {}
GetAsObject(r) == IF r.result = <<>> THEN Obj(<<>>) ELSE r.result[1]

\* o[key]
Field(o, key) ==
  IF o.k = "object" /\ \E i \in 1..Len(o.v) : o.v[i].key = key
  THEN o.v[CHOOSE i \in 1..Len(o.v) : o.v[i].key = key].value
  ELSE Undefined

\* new this.schema.child(fields): the Row instance holding the fields
child(fields) == fields

(***************************************************************************)
(* The Table operations: what each sends to the handle, the engine state   *)
(* it leaves, and what it returns or throws.                               *)
(***************************************************************************)
Return(value) == [k |-> "return", v |-> value]

Done(e, issued, outcome) == [engine |-> e, issued |-> issued, outcome |-> outcome]

\* a statement and what the engine made of it
Sent(handle, e, statement) == [statement |-> statement, r |-> Send(handle, e, statement)]

\* an operation that returns its value whatever the engine raised
SendingSwallowing(x, value) == Done(x.r.engine, <<x.statement>>, Return(value))

\* an operation that sends one statement and returns value, or throws the
\* engine's error
Sending(x, value) ==
  Done(x.r.engine, <<x.statement>>,
       IF x.r.error # "" THEN Throw(x.r.error) ELSE Return(value))

\* create that drops the table before it creates it
createDropping(handle, definition, e) ==
  Sending(Sent(handle, EngineState(<<>>, <<>>, 0), createStatement(definition)), Str("this"))

create(handle, definition, e) ==
  Sending(Sent(handle, e, createStatement(definition)), Str("this"))

getRowsFirstStep(x) ==
  Sending(x, Arr([i \in 1..(IF x.r.result = <<>> THEN 0 ELSE 1) |-> child(x.r.result[i])]))

getRows(x) ==
  Sending(x, Arr([i \in 1..Len(x.r.result) |-> child(x.r.result[i])]))

get(handle, e, options) == getRows(Sent(handle, e, getStatement(options)))

\* a re-fetch that undoes the INSERT when it fails
addFetchedRollingBack(x, g) ==
  IF g.outcome.k = "throw"
  THEN Done([g.engine EXCEPT !.rows = SelectSeq(g.engine.rows, LAMBDA row :
                row[RowidColumn(g.engine.table)].v # x.r.lastInsertRowid)],
            <<x.statement>> \o g.issued, g.outcome)
  ELSE Done(g.engine, <<x.statement>> \o g.issued,
            Return(IF g.outcome.v.v = <<>> THEN Undefined ELSE g.outcome.v.v[1]))

\* the native-style re-fetch: the first row of get by primaryKeyCol
addFetched(x, g) ==
  Done(g.engine, <<x.statement>> \o g.issued,
       IF g.outcome.k = "throw" THEN g.outcome
       ELSE Return(IF g.outcome.v.v = <<>> THEN Undefined ELSE g.outcome.v.v[1]))

\* add without the re-fetch on either handle
addSentNoRefetch(handle, definition, x) ==
  IF x.r.error # "" THEN Done(x.r.engine, <<x.statement>>, Throw(x.r.error))
  ELSE Done(x.r.engine, <<x.statement>>, Return(child(GetAsObject(x.r))))

\* the WASM-style handle returns what the INSERT statement gives back; the
\* native-style handle re-queries by lastInsertRowid on primaryKeyCol
addSent(handle, definition, x) ==
  IF x.r.error # "" THEN Done(x.r.engine, <<x.statement>>, Throw(x.r.error))
  ELSE IF HasCreateFunction(handle)
  THEN Done(x.r.engine, <<x.statement>>, Return(child(GetAsObject(x.r))))
  ELSE addFetched(x, get(handle, x.r.engine,
                         GetOptions(Arr(<<Where(primaryKeyCol(definition),
                                                eq(Num(x.r.lastInsertRowid)))>>),
                                    Undefined, Undefined)))

add(handle, definition, e, row) ==
  addSent(handle, definition, Sent(handle, e, addStatement(row)))

\* delete whose native-style branch binds the values last to first
deleteNativeReversed(handle, e, options) ==
  IF HasCreateFunction(handle)
  THEN Sending(Sent(handle, e, deleteStatement(options)), Undefined)
  ELSE Sending(Sent(handle, e,
                    Statement(deleteStatement(options).query,
                              [i \in 1..Len(deleteStatement(options).params) |->
                                 deleteStatement(options).params[
                                   Len(deleteStatement(options).params) + 1 - i]])),
               Undefined)

delete(handle, e, options) ==
  Sending(Sent(handle, e, deleteStatement(options)), Undefined)

\* the WASM-style handle reads .count of getAsObject; the native-style one
\* reads .count of all()[0], 0 when that is null or undefined
countRow(handle, x) ==
  IF x.r.error # "" THEN Sending(x, Undefined)
  ELSE IF HasCreateFunction(handle) THEN Sending(x, Field(GetAsObject(x.r), "count"))
  ELSE IF x.r.result = <<>>
  THEN Done(x.r.engine, <<x.statement>>, Throw("TypeError: undefined is not an object"))
  ELSE Sending(x, IF Field(x.r.result[1], "count").k \in {"undefined", "null"}
                  THEN Num(0) ELSE Field(x.r.result[1], "count"))

count(handle, e, where) == countRow(handle, Sent(handle, e, countStatement(where)))

updateBuilt(handle, e, s) ==
  IF s.k = "throw" THEN Done(e, <<>>, s)
  ELSE Sending(Sent(handle, e, s), Undefined)

update(handle, definition, e, partialRow, options) ==
  updateBuilt(handle, e, updateStatement(definition, partialRow, options))

(***************************************************************************)
(* The builder harness: buildOpts and the four statements built on it are  *)
(* pure, so each is applied once to every options value of a bounded set.  *)
(***************************************************************************)
MaxConds == 3

SeqsUpTo(S, n) == UNION {[1..m -> S] : m \in 0..n}

CondColumns == {"id", "zz"}

\* undefined, a scalar, and sequences of 0, 1 and 2 scalars, with distinct
\* values per column so that the order of the parameters is observable
OptChoices(c) ==
  IF c = "id"
  THEN {Undefined, eq(Num(1)), ne(Arr(<<>>)), gt(Arr(<<Num(2)>>)),
        le(Arr(<<Num(3), Str("a")>>))}
  ELSE {Undefined, eq(Num(6)), ne(Arr(<<>>)), gt(Arr(<<Num(7)>>)),
        le(Arr(<<Num(8), Str("b")>>))}

BuildConds == UNION {{Where(c, o) : o \in OptChoices(c)} : c \in CondColumns}

WhereChoices == {Undefined} \cup {Arr(l) : l \in SeqsUpTo(BuildConds, MaxConds)}

OrderChoices ==
  {Undefined, Obj(<<>>), Obj(<<Prop("id", Str("DESC"))>>),
   Obj(<<Prop("name", Str("ASC")), Prop("id", Str("DESC"))>>),
   Obj(<<Prop("id", Undefined)>>)}

LimitChoices == {Undefined, Num(0), Num(2), Num(-1)}

\* every where list alone, and the short ones with every order and limit
BuildInputs ==
  {Undefined}
  \cup {GetOptions(w, Undefined, Undefined) : w \in WhereChoices}
  \cup {GetOptions(w, o, l) :
          w \in {x \in WhereChoices : x.k = "array" => Len(x.v) <= 1},
          o \in OrderChoices, l \in LimitChoices}

PartialRows ==
  {Obj(<<>>), Obj(<<Prop("name", Str("a"))>>),
   Obj(<<Prop("name", Str("b")), Prop("id", Num(2))>>),
   Obj(<<Prop("zz", Num(9)), Prop("name", Str("a"))>>),
   Obj(<<Prop("zz", Num(9))>>)}

Built(op, partialRow, out) == [op |-> op, partialRow |-> partialRow, out |-> out]

NotBuilt == Built("none", Undefined, Undefined)

InitBuild ==
  /\ schema = AutoSchema
  /\ backend = "bun"
  /\ table = <<>>
  /\ rows = <<>>
  /\ sequence = 0
  /\ call = NoCall
  /\ opts \in BuildInputs
  /\ built = NotBuilt
  /\ reply = <<>>

BuildOpts ==
  /\ built = NotBuilt
  /\ built' = Built("buildOpts", Undefined, buildOpts(opts))
  /\ UNCHANGED <<schema, backend, engineVars, call, opts, reply>>

BuildGet ==
  /\ built = NotBuilt
  /\ built' = Built("get", Undefined, getStatement(opts))
  /\ UNCHANGED <<schema, backend, engineVars, call, opts, reply>>

BuildDelete ==
  /\ built = NotBuilt
  /\ built' = Built("delete", Undefined, deleteStatement(opts))
  /\ UNCHANGED <<schema, backend, engineVars, call, opts, reply>>

\* count takes the where list alone: count(opts.where)
BuildCount ==
  /\ built = NotBuilt
  /\ built' = Built("count", Undefined, countStatement(OptWhere(opts)))
  /\ UNCHANGED <<schema, backend, engineVars, call, opts, reply>>

BuildUpdate ==
  /\ built = NotBuilt
  /\ \E partialRow \in PartialRows :
       built' = Built("update", partialRow, updateStatement(schema, partialRow, opts))
  /\ UNCHANGED <<schema, backend, engineVars, call, opts, reply>>

NextBuild == BuildOpts \/ BuildGet \/ BuildDelete \/ BuildCount \/ BuildUpdate

SpecBuild == InitBuild /\ [][NextBuild]_vars

(***************************************************************************)
(* Reading a built statement back.                                         *)
(***************************************************************************)
\* the positions of a token in a text, left to right
Positions(text, token) ==
  SelectSeq([i \in 1..Len(text) |-> i], LAMBDA i : text[i] = token)

\* the conditions of a where value (none when it is absent)
Conditions(where) == IF where.k = "array" THEN where.v ELSE <<>>

\* one term per value of the condition list, in condition order and, within
\* a sequence value, in element order
TermsOf(cond) ==
  IF cond.opt.k = "undefined" THEN <<>>
  ELSE IF IsArray(cond.opt.value)
  THEN [j \in 1..Len(cond.opt.value.v) |->
          [column |-> cond.column, type |-> cond.opt.type, value |-> cond.opt.value.v[j]]]
  ELSE <<[column |-> cond.column, type |-> cond.opt.type, value |-> cond.opt.value]>>

FlatTerms(conds) == Join([i \in 1..Len(conds) |-> TermsOf(conds[i])], <<>>)

\* the k-th placeholder of text compares term.column by term.type
PlaceholderIs(text, pos, term) ==
  /\ pos > 2
  /\ text[pos - 2] = term.column
  /\ text[pos - 1] = term.type

\* C1: buildOpts emits as many ? placeholders as it returns values, and the
\* k-th placeholder (left to right) is the comparison of the k-th value, the
\* values being the condition values flattened in condition order and, within
\* an array value, in element order.
C1_PlaceholdersMatchValues ==
  built.op = "buildOpts" =>
    LET marks == Positions(built.out.builtQuery, "?")
        terms == FlatTerms(Conditions(OptWhere(opts)))
    IN /\ Len(marks) = Len(built.out.values)
       /\ Len(terms) = Len(built.out.values)
       /\ \A n \in 1..Len(terms) :
            /\ built.out.values[n] = terms[n].value
            /\ PlaceholderIs(built.out.builtQuery, marks[n], terms[n])

\* a scalar, a one-element and a two-element sequence and a skipped condition
C1_Witness ==
  /\ built.op = "buildOpts"
  /\ OptWhere(opts) = Arr(<<Where("zz", gt(Arr(<<Num(7)>>))), Where("id", Undefined),
                            Where("id", le(Arr(<<Num(3), Str("a")>>)))>>)
  /\ built.out.values = <<Num(7), Num(3), Str("a")>>

IsStatementOf(ops) == built.op \in ops /\ built.out.k = "statement"

\* C2: with an empty condition list (where an empty sequence, or where absent)
\* the SQL of get, delete, count and update contains no WHERE keyword.
C2_EmptyListNoWhere ==
  (/\ IsStatementOf({"get", "delete", "count", "update"})
   /\ Conditions(OptWhere(opts)) = <<>>)
  => Positions(built.out.query, "WHERE") = <<>>

\* the text of one emitted condition
Fragment(cond) ==
  IF IsArray(cond.opt.value)
  THEN <<"(">> \o Join([j \in 1..Len(cond.opt.value.v) |->
                          <<cond.column, cond.opt.type, "?">>], <<"OR">>) \o <<")">>
  ELSE <<cond.column, cond.opt.type, "?">>

Emitted(conds) == SelectSeq(conds, LAMBDA c : c.opt.k # "undefined")

\* the tokens of text from WHERE on, up to ORDER BY or LIMIT
WherePart(text) ==
  LET from == Positions(text, "WHERE")
      upto == Positions(text, "ORDER") \o Positions(text, "LIMIT") \o <<Len(text) + 1>>
  IN IF from = <<>> THEN <<>> ELSE SubSeq(text, from[1], upto[1] - 1)

\* C3: two or more emitted conditions are ANDed in their given order: adjacent
\* condition fragments are separated by exactly one AND, with no leading and no
\* trailing AND.
C3_ConditionsAndSeparated ==
  LET emitted == Emitted(Conditions(OptWhere(opts))) IN
  (built.op = "buildOpts" /\ Len(emitted) >= 2)
  => WherePart(built.out.builtQuery)
       = <<"WHERE">> \o Join([i \in 1..Len(emitted) |-> Fragment(emitted[i])], <<"AND">>)

\* C4: a condition whose value is a sequence of N scalars produces one
\* parenthesized group of exactly N placeholders `column operator ?` joined by
\* OR, and its N elements are the parameters of those placeholders, in order.
C4_SequenceIsOneOrGroup ==
  built.op = "buildOpts" =>
    LET text == built.out.builtQuery
        opens == Positions(text, "(")
        closes == Positions(text, ")")
        marks == Positions(text, "?")
        seqs == SelectSeq(Emitted(Conditions(OptWhere(opts))),
                          LAMBDA c : IsArray(c.opt.value))
    IN /\ Len(opens) = Len(seqs)
       /\ Len(closes) = Len(seqs)
       /\ \A g \in 1..Len(seqs) :
            LET items == seqs[g].opt.value.v
                before == Len(SelectSeq(marks, LAMBDA m : m < opens[g]))
            IN /\ opens[g] < closes[g]
               /\ SubSeq(text, opens[g] + 1, closes[g] - 1)
                    = Join([j \in 1..Len(items) |->
                             <<seqs[g].column, seqs[g].opt.type, "?">>], <<"OR">>)
               /\ before + Len(items) <= Len(built.out.values)
               /\ SubSeq(built.out.values, before + 1, before + Len(items)) = items

\* a two-element sequence after a scalar condition
C4_Witness ==
  /\ built.op = "buildOpts"
  /\ OptWhere(opts) = Arr(<<Where("zz", eq(Num(6))),
                            Where("id", le(Arr(<<Num(3), Str("a")>>)))>>)
  /\ built.out.values = <<Num(6), Num(3), Str("a")>>

\* the options with the conditions on undeclared columns removed
DeclaredOnly(o) ==
  IF o.k = "undefined" \/ o.where.k # "array" THEN o
  ELSE [o EXCEPT !.where =
          Arr(SelectSeq(o.where.v, LAMBDA c : InDefinition(schema, c.column)))]

\* C5: conditions on columns the schema does not declare are dropped before
\* the SQL is built: get, delete, count and update produce the SQL and the
\* parameters they produce for the list without those conditions.
C5_UndeclaredColumnsDropped ==
  /\ built.op = "get" => built.out = getStatement(DeclaredOnly(opts))
  /\ built.op = "delete" => built.out = deleteStatement(DeclaredOnly(opts))
  /\ built.op = "count" => built.out = countStatement(OptWhere(DeclaredOnly(opts)))
  /\ built.op = "update"
       => built.out = updateStatement(schema, built.partialRow, DeclaredOnly(opts))

\* C7: the parameters of update are the SET values, in the order of their
\* `col = ?` assignments, followed by the WHERE values in the order of their
\* placeholders: the k-th ? of the statement is bound to the k-th parameter.
C7_SetValuesThenWhereValues ==
  IsStatementOf({"update"}) =>
    LET text == built.out.query
        params == built.out.params
        marks == Positions(text, "?")
        sets == SelectSeq(built.partialRow.v, LAMBDA e : InDefinition(schema, e.key))
        terms == FlatTerms(Conditions(OptWhere(opts)))
        wheres == Positions(text, "WHERE")
    IN /\ Len(marks) = Len(params)
       /\ Len(params) = Len(sets) + Len(terms)
       /\ \A n \in 1..Len(sets) :
            /\ PlaceholderIs(text, marks[n], [column |-> sets[n].key, type |-> "="])
            /\ wheres # <<>> => marks[n] < wheres[1]
            /\ params[n] = sets[n].value
       /\ \A n \in 1..Len(terms) :
            /\ PlaceholderIs(text, marks[Len(sets) + n], terms[n])
            /\ wheres # <<>> /\ wheres[1] < marks[Len(sets) + n]
            /\ params[Len(sets) + n] = terms[n].value

\* two assignments and a WHERE clause of three values
C7_Witness ==
  /\ IsStatementOf({"update"})
  /\ built.partialRow = Obj(<<Prop("name", Str("b")), Prop("id", Num(2))>>)
  /\ built.out.params = <<Str("b"), Num(2), Num(1), Num(3), Str("a")>>

(***************************************************************************)
(* The accessor in use: a Table constructed over a fresh handle, and any   *)
(* sequence of its operations.  Each operation is a synchronous call; the  *)
(* caller takes its outcome before issuing the next.                       *)
(***************************************************************************)
MaxId == 3

Names == {"a", "b"}

Ids == 1..MaxId

AddRows ==
  {Obj(<<Prop("name", Str(n))>>) : n \in Names}
  \cup {Obj(<<Prop("id", Num(i)), Prop("name", Str("a"))>>) : i \in Ids}
  \cup {Obj(<<Prop("name", Str("b")), Prop("id", Num(i))>>) : i \in Ids}
  \cup {Obj(<<>>), Obj(<<Prop("id", Num(1))>>),
        Obj(<<Prop("zz", Num(9)), Prop("name", Str("a"))>>)}

Wheres ==
  {Undefined, Arr(<<>>)}
  \cup {Arr(<<Where("id", eq(Num(i)))>>) : i \in Ids}
  \cup {Arr(<<Where("name", eq(Str(n)))>>) : n \in Names}
  \cup {Arr(<<Where("id", gt(Num(1))), Where("name", ne(Str("a")))>>),
        Arr(<<Where("id", eq(Arr(<<Num(1), Num(2)>>)))>>),
        Arr(<<Where("name", eq(Str("a"))), Where("id", eq(Arr(<<Num(1), Num(3)>>)))>>),
        Arr(<<Where("id", eq(Arr(<<Num(1), Num(3)>>))), Where("name", eq(Str("a")))>>),
        Arr(<<Where("zz", eq(Num(6)))>>),
        Arr(<<Where("id", Undefined)>>)}

GetInputs ==
  {Undefined}
  \cup {GetOptions(w, Undefined, l) : w \in Wheres, l \in {Undefined, Num(1)}}
  \cup {GetOptions(Undefined, Obj(<<Prop("name", Str("DESC")), Prop("id", Undefined)>>),
                   Undefined)}

DeleteInputs == {Undefined} \cup {GetOptions(w, Undefined, Undefined) : w \in Wheres}

UpdateRows ==
  {Obj(<<>>), Obj(<<Prop("id", Num(1))>>), Obj(<<Prop("zz", Num(9)), Prop("name", Str("a"))>>)}
  \cup {Obj(<<Prop("name", Str(n))>>) : n \in Names}

Engine == EngineState(table, rows, sequence)

\* the rowid the engine would assign to a row that supplies none
NextRowid ==
  IF table = <<>> THEN 1
  ELSE IF ColumnOf(table, RowidColumn(table)).autoIncrement
  THEN Max(sequence, MaxRowid(Engine)) + 1
  ELSE MaxRowid(Engine) + 1

\* the name of the declared primary key column
PrimaryKey(definition) ==
  definition[CHOOSE i \in 1..Len(definition) : definition[i].primaryKey].name

\* the primary key of the row an add call inserted, as its caller knows it:
\* the one the caller supplied, else the one on the returned Row instance
AddedKey(c) ==
  LET supplied == Field(c.args[1], PrimaryKey(schema)) IN
  IF supplied.k # "undefined" THEN supplied ELSE Field(c.outcome.v, PrimaryKey(schema))

Init ==
  /\ schema \in Schemas
  /\ backend \in Backends
  /\ table = <<>>
  /\ rows = <<>>
  /\ sequence = 0
  /\ call = NoCall
  /\ opts = Undefined
  /\ built = NotBuilt
  /\ reply = <<>>

Finish(op, args, d) ==
  /\ table' = d.engine.table
  /\ rows' = d.engine.rows
  /\ sequence' = d.engine.sequence
  /\ call' = Call(op, args, d.issued, d.outcome)
  /\ UNCHANGED <<schema, backend, opts, built, reply>>

Create ==
  /\ call = NoCall
  /\ Finish("create", <<>>, create(backend, schema, Engine))

Add ==
  /\ call = NoCall
  /\ \E row \in AddRows :
       /\ Field(row, "id").k = "undefined" => NextRowid <= MaxId
       /\ Finish("add", <<row>>, add(backend, schema, Engine, row))

Get ==
  /\ call = NoCall
  /\ \E options \in GetInputs : Finish("get", <<options>>, get(backend, Engine, options))

\* get by primary-key equality on the row the preceding add inserted
GetAdded ==
  /\ call.op = "add"
  /\ call.outcome.k = "return"
  /\ LET options == GetOptions(Arr(<<Where(PrimaryKey(schema), eq(AddedKey(call)))>>),
                               Undefined, Undefined)
         d == get(backend, Engine, options)
     IN /\ call' = [Call("get", <<options>>, d.issued, d.outcome) EXCEPT !.after = <<call>>]
        /\ UNCHANGED <<schema, backend, engineVars, opts, built, reply>>

Delete ==
  /\ call = NoCall
  /\ \E options \in DeleteInputs :
       Finish("delete", <<options>>, delete(backend, Engine, options))

Count ==
  /\ call = NoCall
  /\ \E where \in Wheres : Finish("count", <<where>>, count(backend, Engine, where))

Update ==
  /\ call = NoCall
  /\ \E partialRow \in UpdateRows, options \in DeleteInputs :
       Finish("update", <<partialRow, options>>,
              update(backend, schema, Engine, partialRow, options))

\* the caller has taken the outcome of the call
Returned ==
  /\ call # NoCall
  /\ call' = NoCall
  /\ UNCHANGED <<schema, backend, engineVars, opts, built, reply>>

Next == Create \/ Add \/ Get \/ GetAdded \/ Delete \/ Count \/ Update \/ Returned

Spec == Init /\ [][Next]_vars

(***************************************************************************)
(* Claims about the Table operations, checked under Spec.                  *)
(***************************************************************************)
\* an update step: the call that was taken is replaced by an update call
UpdateStep == call.op # "update" /\ call'.op = "update"

\* C6: update with an empty partialRow fails with the invalid-argument error for
\* every opts and on either handle, sends no statement to the engine, and leaves
\* the table, its rows and the sequence as they were.
C6_EmptyUpdateThrows ==
  [][(UpdateStep /\ Keys(call'.args[1]) = <<>>)
       => /\ call'.outcome = Throw("Update requires at least one field to update")
          /\ call'.issued = <<>>
          /\ UNCHANGED engineVars]_vars

C6_Witness ==
  /\ call.op = "update"
  /\ Keys(call.args[1]) = <<>>
  /\ Truthy(OptWhere(call.args[2]))
  /\ rows # <<>>
  /\ call.outcome.k = "throw"
  /\ call.issued = <<>>

\* C8: with a schema declaring an auto-increment INTEGER primary key, an add that
\* returns gives a Row instance carrying an integer id that a stored row has and
\* every supplied field with its supplied value, on either handle.
C8_AddReturnsInsertedRow ==
  (call.op = "add" /\ call.outcome.k = "return" /\ schema = AutoSchema)
    => /\ call.outcome.v.k = "object"
       /\ Field(call.outcome.v, "id").k = "number"
       /\ \E i \in 1..Len(rows) : rows[i]["id"] = Field(call.outcome.v, "id")
       /\ \A i \in 1..Len(call.args[1].v) :
            Field(call.outcome.v, call.args[1].v[i].key) = call.args[1].v[i].value

\* the row the add call c put in the table: the supplied fields, with the
\* primary key key
InsertedRow(c, key, r) ==
  /\ r.k = "object"
  /\ Field(r, PrimaryKey(schema)) = key
  /\ \A i \in 1..Len(c.args[1].v) : Field(r, c.args[1].v[i].key) = c.args[1].v[i].value
  /\ \A i \in 1..Len(r.v) :
       r.v[i].key # PrimaryKey(schema) => Field(c.args[1], r.v[i].key) = r.v[i].value

\* C9: add(row) followed by get with one equality condition on the primary key
\* of the added row returns exactly one row, equal field by field to the
\* inserted row.
C9_AddGetRoundTrip ==
  (call.op = "get" /\ call.after # <<>>)
    => /\ call.outcome.k = "return"
       /\ Len(call.outcome.v.v) = 1
       /\ InsertedRow(call.after[1], call.args[1].where.v[1].opt.value, call.outcome.v.v[1])

\* C10: on a created table, get() with no options returns one Row instance per
\* stored row: as many instances as the table has rows, each holding the
\* columns of its row.
C10_GetReturnsEveryRow ==
  (call.op = "get" /\ call.args = <<Undefined>> /\ table # <<>>)
    => /\ call.outcome.k = "return"
       /\ Len(call.outcome.v.v) = Len(rows)
       /\ \A i \in 1..Len(rows) :
            \E j \in 1..Len(call.outcome.v.v) :
              call.outcome.v.v[j] = child(RowObject(Engine, rows[i]))
       /\ \A i, j \in 1..Len(call.outcome.v.v) :
            i # j => call.outcome.v.v[i] # call.outcome.v.v[j]

C10_Witness ==
  /\ call.op = "get"
  /\ call.args = <<Undefined>>
  /\ Len(rows) >= 2
  /\ sequence > Len(rows)
  /\ call.outcome.k = "return"
  /\ Len(call.outcome.v.v) = Len(rows)

\* a delete step with no conditions: delete() or delete(opts) without where
DeleteAllStep ==
  /\ call.op # "delete"
  /\ call'.op = "delete"
  /\ ~Truthy(OptWhere(call'.args[1]))

\* C11: on a created table, delete with no conditions returns and leaves no
\* row, whatever rows there were: count() on the resulting table returns 0 and
\* get() returns no Row instance.
C11_DeleteAllEmptiesTable ==
  [][(DeleteAllStep /\ table # <<>>)
       => /\ call'.outcome = Return(Undefined)
          /\ rows' = <<>>
          /\ count(backend, Engine', Undefined).outcome = Return(Num(0))
          /\ get(backend, Engine', Undefined).outcome = Return(Arr(<<>>))]_vars

C11_Witness ==
  /\ call.op = "delete"
  /\ call.args = <<Undefined>>
  /\ call.outcome.k = "return"
  /\ schema = AutoSchema
  /\ sequence >= 2
  /\ rows = <<>>

(***************************************************************************)
(* The CRUD script of the README on a fresh database: create, add, count   *)
(* by name, update by the returned id, get by that id, delete by that id,  *)
(* get().  Each call keeps the call before it in after; an exception ends  *)
(* the script.                                                             *)
(***************************************************************************)
CrudNames == {"a", "b", "c", "d"}

\* the latest call of op in the script that ends with c
RECURSIVE Earlier(_, _)
Earlier(c, op) == IF c.op = op THEN c ELSE Earlier(c.after[1], op)

\* user.id of the Row that add returned
ReturnedId(c) == Field(Earlier(c, "add").outcome.v, "id")

ById(c) == GetOptions(Arr(<<Where("id", eq(ReturnedId(c)))>>), Undefined, Undefined)

CrudStep(op, args, d) ==
  /\ table' = d.engine.table
  /\ rows' = d.engine.rows
  /\ sequence' = d.engine.sequence
  /\ call' = [Call(op, args, d.issued, d.outcome) EXCEPT !.after = <<call>>]
  /\ UNCHANGED <<schema, backend, opts, built, reply>>

CrudCreate ==
  /\ call = NoCall
  /\ CrudStep("create", <<>>, create(backend, schema, Engine))

CrudAdd ==
  /\ call.op = "create" /\ call.outcome.k = "return"
  /\ \E n \in CrudNames :
       CrudStep("add", <<Obj(<<Prop("name", Str(n))>>)>>,
                add(backend, schema, Engine, Obj(<<Prop("name", Str(n))>>)))

CrudCount ==
  /\ call.op = "add" /\ call.outcome.k = "return"
  /\ CrudStep("count", <<Arr(<<Where("name", eq(Field(call.args[1], "name")))>>)>>,
              count(backend, Engine, Arr(<<Where("name", eq(Field(call.args[1], "name")))>>)))

CrudUpdate ==
  /\ call.op = "count" /\ call.outcome.k = "return"
  /\ \E m \in CrudNames :
       CrudStep("update", <<Obj(<<Prop("name", Str(m))>>), ById(call)>>,
                update(backend, schema, Engine, Obj(<<Prop("name", Str(m))>>), ById(call)))

CrudGetById ==
  /\ call.op = "update" /\ call.outcome.k = "return"
  /\ CrudStep("get", <<ById(call)>>, get(backend, Engine, ById(call)))

CrudDelete ==
  /\ call.op = "get" /\ call.after[1].op = "update" /\ call.outcome.k = "return"
  /\ CrudStep("delete", <<ById(call)>>, delete(backend, Engine, ById(call)))

CrudGetAll ==
  /\ call.op = "delete" /\ call.outcome.k = "return"
  /\ CrudStep("get", <<Undefined>>, get(backend, Engine, Undefined))

NextCrud ==
  CrudCreate \/ CrudAdd \/ CrudCount \/ CrudUpdate \/ CrudGetById \/ CrudDelete \/ CrudGetAll

SpecCrud == Init /\ [][NextCrud]_vars

\* C12: with the auto-increment schema, on either handle, every call of the
\* script returns; count by the added name returns 1; get by the returned id
\* after update({name: m}) returns a row whose name is m; get() after the
\* delete by the returned id returns no row.
C12_CrudScenario ==
  (schema = AutoSchema /\ call # NoCall)
    => /\ call.outcome.k = "return"
       /\ call.op = "count" => call.outcome.v = Num(1)
       /\ (call.op = "get" /\ call.after[1].op = "update")
            => /\ Len(call.outcome.v.v) >= 1
               /\ \A i \in 1..Len(call.outcome.v.v) :
                    Field(call.outcome.v.v[i], "name") = Field(call.after[1].args[1], "name")
       /\ (call.op = "get" /\ call.after[1].op = "delete")
            => call.outcome.v = Arr(<<>>)

(***************************************************************************)
(* The tail of count on what the handle yields for the COUNT statement:    *)
(* no row, a row whose count is NULL, or a row with an integer count.      *)
(***************************************************************************)
MaxCount == 3

CountReplies ==
  {<<>>, <<Obj(<<Prop("count", Null)>>)>>}
  \cup {<<Obj(<<Prop("count", Num(n))>>)>> : n \in 0..MaxCount}

InitCount ==
  /\ schema \in Schemas
  /\ backend \in Backends
  /\ table = <<>>
  /\ rows = <<>>
  /\ sequence = 0
  /\ call = NoCall
  /\ opts \in DeleteInputs
  /\ built = NotBuilt
  /\ reply \in CountReplies

CountReply ==
  /\ call = NoCall
  /\ Finish("count", <<OptWhere(opts)>>,
            countRow(backend, [statement |-> countStatement(OptWhere(opts)),
                               r |-> Ok(Engine, reply, 0)]))

SpecCount == InitCount /\ [][CountReply]_vars

\* C13: count returns the integer the handle reports in the count column of
\* the row, and 0 when the handle yields no row, on both handles.
C13_CountOrZero ==
  call.op = "count"
    => /\ reply = <<>> => call.outcome = Return(Num(0))
       /\ (reply # <<>> /\ Field(reply[1], "count").k = "number")
            => call.outcome = Return(Field(reply[1], "count"))

\* a create step
CreateStep == call.op # "create" /\ call'.op = "create"

\* C14: create() on a table that already exists returns without error and
\* leaves the table's columns, its rows and the sequence as they were.
C14_CreateIdempotent ==
  [][(CreateStep /\ table # <<>>)
       => /\ call'.outcome.k = "return"
          /\ UNCHANGED engineVars]_vars

C14_Witness ==
  /\ call.op = "create"
  /\ call.outcome.k = "return"
  /\ Len(rows) >= 2

(***************************************************************************)
(* Claims about the LIMIT and ORDER BY clauses and about skipped           *)
(* conditions, checked under SpecBuild.                                    *)
(***************************************************************************)
\* the SQL text last built: builtQuery alone, or the statement of an operation
BuiltText ==
  IF built.op = "buildOpts" THEN built.out.builtQuery
  ELSE IF IsStatementOf({"get", "delete", "update"}) THEN built.out.query
  ELSE <<>>

HasBuiltText == built.op = "buildOpts" \/ IsStatementOf({"get", "delete", "update"})

\* C15: the built SQL contains a LIMIT clause exactly when limit is present and
\* greater than zero; for limit absent, zero or negative it contains none.
C15_LimitIffPositive ==
  HasBuiltText
    => ((Positions(BuiltText, "LIMIT") # <<>>)
          <=> (OptLimit(opts).k = "number" /\ OptLimit(opts).v > 0))

\* C16: with an order specification that names no column, as with an absent
\* one, the built SQL contains no ORDER BY clause.
C16_EmptyOrderNoOrderBy ==
  (HasBuiltText /\ (OptOrderBy(opts).k = "undefined" \/ OptOrderBy(opts) = Obj(<<>>)))
    => Positions(BuiltText, "ORDER") = <<>>

\* s without its i-th element
Without(s, i) == SubSeq(s, 1, i - 1) \o SubSeq(s, i + 1, Len(s))

\* C17: a condition whose opt is undefined is skipped: whatever its position in
\* the list, builtQuery and values equal those built from the list without it.
C17_UndefinedOptSkipped ==
  (built.op = "buildOpts" /\ IsArray(OptWhere(opts)))
    => \A i \in 1..Len(opts.where.v) :
         opts.where.v[i].opt.k = "undefined"
           => built.out = buildOpts([opts EXCEPT !.where = Arr(Without(opts.where.v, i))])

\* a step in which a Table operation is called and completes
CallStep == call' # call /\ call' # NoCall

\* the first word of the n-th statement the completed call sent
Verb(n) == call'.issued[n].query[1]

AddStep == call.op # "add" /\ call'.op = "add"

\* the stored row holds every field the caller supplied
Holds(row, supplied) ==
  \A i \in 1..Len(supplied.v) : row[supplied.v[i].key] = supplied.v[i].value

\* C19: when add on the native-style handle has sent the INSERT and the
\* re-fetch SELECT then raises, the inserted row stays: after the call has
\* thrown, the table holds the rows it held before and the new row.
C19_NoRollbackOnRefetchFailure ==
  [][(/\ AddStep
      /\ ~HasCreateFunction(backend)
      /\ Len(call'.issued) = 2
      /\ call'.outcome.k = "throw")
       => /\ Len(rows') = Len(rows) + 1
          /\ \A i \in 1..Len(rows) : \E j \in 1..Len(rows') : rows'[j] = rows[i]
          /\ \E j \in 1..Len(rows') :
               /\ Holds(rows'[j], call'.args[1])
               /\ \A i \in 1..Len(rows) : rows[i] # rows'[j]]_vars

C19_Witness ==
  /\ call.op = "add"
  /\ ~HasCreateFunction(backend)
  /\ primaryKeyCol(schema) = "undefined"
  /\ Len(call.issued) = 2
  /\ call.outcome.k = "throw"
  /\ Len(rows) >= 2

\* the call that sent statement n and got r from the engine: if the engine
\* raised, the call throws that error and statement n is the last it sent
Propagated(n, r) ==
  r.error # "" => (call'.outcome = Throw(r.error) /\ Len(call'.issued) = n)

\* what the engine makes of the second statement, sent after the first gave r
AfterFirst(r) == Send(backend, r.engine, call'.issued[2])

PropagatedFrom(r) ==
  /\ Propagated(1, r)
  /\ (r.error = "" /\ Len(call'.issued) >= 2) => Propagated(2, AfterFirst(r))

\* C20: when the engine raises on a statement of create, add, get, delete,
\* count or update, the call throws the engine's error as it is and sends no
\* statement after it.
C20_EngineErrorsPropagate ==
  [][(CallStep /\ call'.issued # <<>>)
       => PropagatedFrom(Send(backend, Engine, call'.issued[1]))]_vars

C20_Witness ==
  /\ call.op = "update"
  /\ call.issued # <<>>
  /\ call.outcome = Throw("no such column")
  /\ rows # <<>>

(***************************************************************************)
(* The statement of create over schema definitions of up to MaxCols        *)
(* columns with every combination of type and flags.                       *)
(***************************************************************************)
MaxCols == 2

ColNames == <<"id", "name", "age">>

CreateSchemas ==
  UNION {{[i \in 1..n |-> Column(ColNames[i], f[i].type, f[i].nullable,
                                 f[i].primaryKey, f[i].autoIncrement)] :
            f \in [1..n -> [type : {"INTEGER", "REAL", "TEXT"}, nullable : BOOLEAN,
                            primaryKey : BOOLEAN, autoIncrement : BOOLEAN]]} :
         n \in 1..MaxCols}

InitCreate ==
  /\ schema \in CreateSchemas
  /\ backend \in Backends
  /\ table = <<>>
  /\ rows = <<>>
  /\ sequence = 0
  /\ call = NoCall
  /\ opts = Undefined
  /\ built = NotBuilt
  /\ reply = <<>>

BuildCreate ==
  /\ built = NotBuilt
  /\ built' = Built("create", Undefined, createStatement(schema))
  /\ UNCHANGED <<schema, backend, engineVars, call, opts, reply>>

SpecCreate == InitCreate /\ [][BuildCreate]_vars

\* the column definitions of a CREATE text: the tokens between the outer
\* parentheses, split at the commas
ColumnTexts(query) ==
  LET body == SubSeq(query, 8, Len(query) - 1)
      commas == Positions(body, ",")
  IN [i \in 1..(Len(commas) + 1) |->
        SubSeq(body,
               IF i = 1 THEN 1 ELSE commas[i - 1] + 1,
               IF i = Len(commas) + 1 THEN Len(body) ELSE commas[i] - 1)]

\* what follows name and type in one column definition
Modifiers(text) == SubSeq(text, 3, Len(text))

\* C21: the CREATE text has one definition per schema column, in declaration
\* order: name and storage type, then PRIMARY KEY iff primaryKey, then
\* AUTOINCREMENT iff primaryKey, autoIncrement and type INTEGER, then NOT NULL
\* iff neither nullable nor primaryKey.
C21_CreateColumnDefinitions ==
  built.op = "create"
    => /\ SubSeq(built.out.query, 1, 7) =
            <<"CREATE", "TABLE", "IF", "NOT", "EXISTS", TableName, "(">>
       /\ built.out.query[Len(built.out.query)] = ")"
       /\ built.out.params = <<>>
       /\ Len(ColumnTexts(built.out.query)) = Len(schema)
       /\ \A i \in 1..Len(schema) :
            LET text == ColumnTexts(built.out.query)[i]
                col == schema[i]
                pk == IF col.primaryKey THEN <<"PRIMARY", "KEY">> ELSE <<>>
                ai == IF col.primaryKey /\ col.autoIncrement /\ col.type = "INTEGER"
                      THEN <<"AUTOINCREMENT">> ELSE <<>>
                nn == IF ~col.nullable /\ ~col.primaryKey THEN <<"NOT", "NULL">> ELSE <<>>
            IN /\ Len(text) >= 2
               /\ text[1] = col.name
               /\ text[2] = col.type
               /\ Modifiers(text) = pk \o ai \o nn

C21_Witness ==
  /\ built.op = "create"
  /\ Len(schema) = 2
  /\ schema[1].primaryKey /\ schema[1].autoIncrement /\ schema[1].type = "INTEGER"
  /\ schema[2].nullable /\ ~schema[2].primaryKey /\ schema[2].autoIncrement
  /\ ColumnTexts(built.out.query) = <<<<"id", "INTEGER", "PRIMARY", "KEY", "AUTOINCREMENT">>,
                                      <<"name", schema[2].type>>>>

\* the pieces of body between the occurrences of token
SplitAt(body, token) ==
  LET at == Positions(body, token) IN
  [i \in 1..(Len(at) + 1) |->
     SubSeq(body,
            IF i = 1 THEN 1 ELSE at[i - 1] + 1,
            IF i = Len(at) + 1 THEN Len(body) ELSE at[i] - 1)]

\* the ordering terms of text: what stands between ORDER BY and LIMIT or the end
OrderingTerms(text) ==
  LET from == Positions(text, "ORDER")[1]
      upto == (Positions(text, "LIMIT") \o <<Len(text) + 1>>)[1]
  IN SplitAt(SubSeq(text, from + 2, upto - 1), ",")

\* C22: for an order specification that names columns, the built SQL has one
\* ORDER BY clause with one term per entry in the entries' order, each the
\* column with its given direction (no direction or ASC when none is given);
\* WHERE stands before ORDER BY and ORDER BY before LIMIT.
C22_OrderByClause ==
  (HasBuiltText /\ OptOrderBy(opts).k = "object" /\ OptOrderBy(opts).v # <<>>)
    => /\ Len(Positions(BuiltText, "ORDER")) = 1
       /\ BuiltText[Positions(BuiltText, "ORDER")[1] + 1] = "BY"
       /\ Len(OrderingTerms(BuiltText)) = Len(opts.orderBy.v)
       /\ \A i \in 1..Len(opts.orderBy.v) :
            IF opts.orderBy.v[i].value.k = "undefined"
            THEN OrderingTerms(BuiltText)[i] \in
                   {<<opts.orderBy.v[i].key>>, <<opts.orderBy.v[i].key, "ASC">>}
            ELSE OrderingTerms(BuiltText)[i] =
                   <<opts.orderBy.v[i].key, opts.orderBy.v[i].value.v>>
       /\ Len(Positions(BuiltText, "WHERE")) <= 1
       /\ Len(Positions(BuiltText, "LIMIT")) <= 1
       /\ \A w \in 1..Len(BuiltText) :
            BuiltText[w] = "WHERE" => w < Positions(BuiltText, "ORDER")[1]
       /\ \A l \in 1..Len(BuiltText) :
            BuiltText[l] = "LIMIT" => l > Positions(BuiltText, "ORDER")[1]

C22_Witness ==
  /\ IsStatementOf({"get"})
  /\ OptOrderBy(opts).k = "object"
  /\ Len(OptOrderBy(opts).v) = 2
  /\ Positions(BuiltText, "WHERE") # <<>>
  /\ Positions(BuiltText, "LIMIT") # <<>>
  /\ OrderingTerms(BuiltText) = <<<<"name", "ASC">>, <<"id", "DESC">>>>

\* the assignments of an UPDATE text: what stands between SET and the first of
\* WHERE, ORDER BY, LIMIT or the end
SetClause(text) ==
  LET upto == (SelectSeq([i \in 1..Len(text) |-> i],
                         LAMBDA i : text[i] \in {"WHERE", "ORDER", "LIMIT"})
               \o <<Len(text) + 1>>)[1]
  IN SubSeq(text, 4, upto - 1)

\* the entries of partialRow whose key the schema declares, in key order
DeclaredEntries == SelectSeq(built.partialRow.v, LAMBDA e : InDefinition(schema, e.key))

\* C23: the SET clause of update has exactly one `col = ?` per schema-declared
\* key of partialRow, in partialRow key order; the first parameters are the
\* values of those keys in that order; an undeclared key gives no assignment
\* and no parameter.
C23_UpdateSetsDeclaredKeys ==
  IsStatementOf({"update"})
    => /\ SubSeq(built.out.query, 1, 3) = <<"UPDATE", TableName, "SET">>
       /\ SetClause(built.out.query) =
            Join([i \in 1..Len(DeclaredEntries) |->
                    <<DeclaredEntries[i].key, "=", "?">>], <<",">>)
       /\ Len(built.out.params) =
            Len(DeclaredEntries) + Len(FlatTerms(Conditions(OptWhere(opts))))
       /\ \A i \in 1..Len(DeclaredEntries) :
            built.out.params[i] = DeclaredEntries[i].value
       /\ \A i \in 1..Len(built.partialRow.v) :
            ~InDefinition(schema, built.partialRow.v[i].key)
              => Positions(SetClause(built.out.query), built.partialRow.v[i].key) = <<>>

C23_Witness ==
  /\ IsStatementOf({"update"})
  /\ built.partialRow = Obj(<<Prop("zz", Num(9)), Prop("name", Str("a"))>>)
  /\ SetClause(built.out.query) = <<"name", "=", "?">>
  /\ Positions(built.out.query, "WHERE") # <<>>
  /\ Len(built.out.params) >= 2
  /\ built.out.params[1] = Str("a")

\* the items of a comma-separated list, one token each
Items(body) == IF body = <<>> THEN <<>> ELSE SplitAt(body, ",")

\* the n-th parenthesised list of text
Listed(text, n) ==
  Items(SubSeq(text, Positions(text, "(")[n] + 1, Positions(text, ")")[n] - 1))

\* C24: the INSERT of add lists the row's own keys in the row's key order, with
\* as many placeholders and as many bound values as columns; the k-th bound
\* value is the row's value for the k-th column listed.
C24_AddInsertFollowsRow ==
  call.op = "add"
    => /\ SubSeq(call.issued[1].query, 1, 4) = <<"INSERT", "INTO", TableName, "(">>
       /\ Len(Positions(call.issued[1].query, "(")) = 2
       /\ Len(Positions(call.issued[1].query, ")")) = 2
       /\ call.issued[1].query[Positions(call.issued[1].query, ")")[1] + 1] = "VALUES"
       /\ Listed(call.issued[1].query, 1) =
            [k \in 1..Len(call.args[1].v) |-> <<call.args[1].v[k].key>>]
       /\ Listed(call.issued[1].query, 2) = [k \in 1..Len(call.args[1].v) |-> <<"?">>]
       /\ Len(call.issued[1].params) = Len(call.args[1].v)
       /\ \A k \in 1..Len(call.args[1].v) :
            call.issued[1].params[k] =
              Field(call.args[1], Listed(call.issued[1].query, 1)[k][1])

C24_Witness ==
  /\ call.op = "add"
  /\ call.outcome.k = "return"
  /\ Listed(call.issued[1].query, 1) = <<<<"name">>, <<"id">>>>
  /\ call.issued[1].params = <<Str("b"), Num(2)>>
  /\ \E i \in 1..Len(rows) : rows[i]["id"] = Num(2) /\ rows[i]["name"] = Str("b")

\* the statements the completed call would have sent through the handle h
IssuedOn(h) ==
  CASE call'.op = "get" -> get(h, Engine, call'.args[1]).issued
    [] call'.op = "delete" -> delete(h, Engine, call'.args[1]).issued
    [] call'.op = "count" -> count(h, Engine, call'.args[1]).issued
    [] call'.op = "update" -> update(h, schema, Engine, call'.args[1], call'.args[2]).issued

\* C25: for the same schema and arguments, get, delete, count and update send
\* the same SQL text with the same ordered parameters through the WASM-style
\* handle as through the native-style handle.
C25_SameStatementOnBothHandles ==
  [][(CallStep /\ call'.op \in {"get", "delete", "count", "update"})
       => \A h \in Backends : IssuedOn(h) = call'.issued]_vars

C25_Witness ==
  /\ call.op = "delete"
  /\ HasCreateFunction(backend)
  /\ rows # <<>>
  /\ Len(call.issued) = 1
  /\ Len(call.issued[1].params) >= 2
  /\ call.issued[1].params[1] # call.issued[1].params[2]
  /\ delete("bun", Engine, call.args[1]).issued = call.issued

\* count agrees with what get gives for the same conditions: both return, the
\* count being the number of Row instances, or both throw the same error
CountAgrees(c, g) ==
  /\ g.engine = Engine
  /\ IF g.outcome.k = "return"
     THEN c = Return(Num(Len(g.outcome.v.v)))
     ELSE c = g.outcome

\* C26: in every table state and for every condition list, count(conditions)
\* is the number of rows get({where: conditions}) returns, and neither call
\* changes the table, its rows or the sequence.
C26_CountIsNumberOfGetRows ==
  [][/\ (CallStep /\ call'.op \in {"get", "count"}) => UNCHANGED engineVars
     /\ (CallStep /\ call'.op = "count")
          => CountAgrees(call'.outcome,
                         get(backend, Engine,
                             GetOptions(call'.args[1], Undefined, Undefined)))]_vars

C26_Witness ==
  /\ call.op = "count"
  /\ IsArray(call.args[1])
  /\ Len(call.args[1].v) = 2
  /\ call.outcome = Return(Num(2))
  /\ Len(rows) = 3

\* a delete step that returns
DeleteStep == call.op # "delete" /\ call'.op = "delete" /\ call'.outcome.k = "return"

\* the stored row is among the Row instances the get call g returned
Returns(g, row) ==
  /\ g.outcome.k = "return"
  /\ \E k \in 1..Len(g.outcome.v.v) : g.outcome.v.v[k] = child(RowObject(Engine, row))

\* the rows left are the rows that before did not match, each as it was
RemovedExactly(before) ==
  /\ before.outcome.k = "return"
  /\ \A i \in 1..Len(rows) :
       Returns(before, rows[i]) <=> ~(\E j \in 1..Len(rows') : rows'[j] = rows[i])
  /\ \A j \in 1..Len(rows') : \E i \in 1..Len(rows) : rows[i] = rows'[j]
  /\ Len(rows') = Cardinality({i \in 1..Len(rows) : ~Returns(before, rows[i])})

\* C27: a delete with conditions and no limit that returns removes exactly the
\* rows get(opts) returned before it: get(opts) on the table afterwards returns
\* no row, and every row that did not match is still stored, unchanged.
C27_DeleteRemovesExactlyMatches ==
  [][(DeleteStep /\ Truthy(OptWhere(call'.args[1])))
       => /\ RemovedExactly(get(backend, Engine, call'.args[1]))
          /\ get(backend, Engine', call'.args[1]).outcome = Return(Arr(<<>>))
          /\ table' = table]_vars

C27_Witness ==
  /\ call.op = "delete"
  /\ call.outcome.k = "return"
  /\ Truthy(OptWhere(call.args[1]))
  /\ Len(call.args[1].where.v) = 2
  /\ schema = AutoSchema
  /\ Len(rows) = 1
  /\ sequence = 3

\* an update step that returns
UpdateReturns == UpdateStep /\ call'.outcome.k = "return"

\* new is old after the update with partialRow: unchanged if old did not match;
\* else every declared column named in partialRow holds the given value and
\* every other column its old value
UpdatedFrom(old, new, matched, partialRow) ==
  IF ~matched THEN new = old
  ELSE \A c \in DOMAIN old :
         IF Field(partialRow, c).k # "undefined"
         THEN new[c] = Field(partialRow, c)
         ELSE new[c] = old[c]

\* every row before corresponds to one row after, updated if before returned it
UpdatedExactly(before, partialRow) ==
  /\ before.outcome.k = "return"
  /\ Len(rows') = Len(rows)
  /\ \E f \in [1..Len(rows) -> 1..Len(rows)] :
       /\ \A i, j \in 1..Len(rows) : i # j => f[i] # f[j]
       /\ \A i \in 1..Len(rows) :
            UpdatedFrom(rows[i], rows'[f[i]], Returns(before, rows[i]), partialRow)

\* C28: an update that returns changes only the columns named in partialRow,
\* only in the rows get(opts) returned before it: the number of rows is the
\* same, the other rows are unchanged, the matching rows keep every column not
\* named; with opts absent every row is updated.
C28_UpdateChangesOnlyNamedInMatches ==
  [][UpdateReturns
       => /\ UpdatedExactly(get(backend, Engine, call'.args[2]), call'.args[1])
          /\ call'.args[2].k = "undefined"
               => \A j \in 1..Len(rows') : \A k \in 1..Len(call'.args[1].v) :
                    InDefinition(schema, call'.args[1].v[k].key)
                      => rows'[j][call'.args[1].v[k].key] = call'.args[1].v[k].value
          /\ table' = table]_vars

C28_Witness ==
  /\ call.op = "update"
  /\ call.outcome.k = "return"
  /\ call.args[1] = Obj(<<Prop("zz", Num(9)), Prop("name", Str("a"))>>)
  /\ Truthy(OptWhere(call.args[2]))
  /\ Len(rows) = 3
  /\ \E i, j \in 1..Len(rows) : rows[i]["name"] = Str("a") /\ rows[j]["name"] = Str("b")

====
